---- MODULE Spec2Model ----
(***************************************************************************)
(* Model of src/Scraper.py: the Scraper base class (data, load) and the    *)
(* scrape method shared, line for line, by BuzzScraper and                 *)
(* ClickHoleScraper.                                                       *)
(*                                                                         *)
(* One scraper object is constructed (Init) and scrape is then called on   *)
(* it up to MaxRuns times.  A call is a sequence of steps: one step per    *)
(* loop iteration (one find_data call, i.e. one page fetched from the      *)
(* site), one step for leaving the loop, and one step for the rest of the  *)
(* method (the tagging loop and the call of load).                         *)
(*                                                                         *)
(* Reading of the source.  The method bodies name `page_limit` where the   *)
(* attribute self.page_limit is meant (lines 86, 144), ClickHoleScraper's  *)
(* find_data is declared without self (line 166), line 105 lacks a comma,  *)
(* and BuzzScraper.find_data returns the rel:data attribute values, which  *)
(* scrape then indexes as dictionaries.  The model follows the algorithm   *)
(* these methods spell out: page_limit is the attribute, find_data returns *)
(* a list of dictionaries.                                                 *)
(***************************************************************************)
EXTENDS Integers, Sequences, FiniteSets, TLC

VARIABLES
    scraper,         \* the class of the object: "BuzzFeed" or "ClickHole"
    page_limit,      \* self.page_limit
    document_limit,  \* self.document_limit
    data,            \* self.data, the store
    web,             \* the site: web[p] is what find_data extracts from page p
    pc,              \* position of the scrape call
    documents,       \* scrape's local list, as accumulated by the loops
    i,               \* scrape's local counter of the document-count loop
    page,            \* scrape's local page number
    raised_in,       \* where the call raised: "none", "find_data", "tag", "load"
    requested,       \* history: the page numbers passed to find_data in this call
    data0,           \* history: self.data when the current call started
    hist             \* history: one record per finished call

vars == <<scraper, page_limit, document_limit, data, web, pc, documents, i,
          page, raised_in, requested, data0, hist>>

(***************************************************************************)
(* Bounds.                                                                 *)
(***************************************************************************)
MaxRecords == 3      \* records the site holds, over all its pages
SrcPages == 2        \* pages of the site that may hold records
MaxPage == 4         \* the document-count loop is followed up to this page
MaxPageLimit == 2    \* largest page_limit tried
MaxDocLimit == 2     \* largest document_limit tried
MaxRuns == 2         \* calls of scrape on the one object

Unset == 0 - 1

EmptyMap == [x \in {} |-> x]

(***************************************************************************)
(* What find_data can return for one article.  ClickHoleScraper.find_data  *)
(* always builds both keys; two listings may carry the same id under       *)
(* different names.  A BuzzFeed rel:data object may or may not carry       *)
(* "buzz-id" (read by the tagging loop) and "buzz_id" (named in the tag    *)
(* list).                                                                  *)
(***************************************************************************)
ClickHoleRecords ==
    {[name |-> "n1", article_id |-> "a"],
     [name |-> "n2", article_id |-> "a"],
     [name |-> "n1", article_id |-> "b"]}

BuzzRecords ==
    {("name" :> "n1") @@ ("buzz-id" :> "a") @@ ("buzz_id" :> "a"),
     ("name" :> "n1") @@ ("buzz-id" :> "b"),
     ("name" :> "n1") @@ ("buzz_id" :> "a")}

Records(s) == IF s = "ClickHole" THEN ClickHoleRecords ELSE BuzzRecords

SeqsUpTo(S, n) == UNION {[1..m -> S] : m \in 0..n}

RECURSIVE TotalLen(_, _)
TotalLen(w, n) == IF n = 0 THEN 0 ELSE TotalLen(w, n - 1) + Len(w[n])

\* the sites: SrcPages pages of extracted records, MaxRecords records in all
Sites(s) ==
    {w \in [1..SrcPages -> SeqsUpTo(Records(s), MaxRecords)] :
        TotalLen(w, SrcPages) <= MaxRecords}

Publisher(s) == IF s = "ClickHole" THEN "ClickHole" ELSE "BuzzFeed"

IdField(s) == IF s = "ClickHole" THEN "article_id" ELSE "buzz-id"

Tags(s) ==
    IF s = "ClickHole"
    THEN {"name", "publisher", "store_key", "article_id"}
    ELSE {"buzz_id", "name", "store_key", "publisher"}

\* find_data(url) for the page number the url carries, when it does not raise
find_data(p) == IF p \in 1..Len(web) THEN web[p] ELSE <<>>

StoreKeyNoId(s, doc) == Publisher(s) \o "-"

\* "ClickHole-" + doc['article_id']
StoreKey(s, doc) == Publisher(s) \o "-" \o doc[IdField(s)]

\* the body of the tagging loop
Tag(s, doc) ==
    ("publisher" :> Publisher(s)) @@ ("store_key" :> StoreKey(s, doc)) @@ doc

ProjectAll(elem, tags) == elem

\* {k : elem[k] for k in tags}
Project(elem, tags) == [k \in tags |-> elem[k]]

PutFirstWins(store, k, entry) ==
    IF k \in DOMAIN store THEN store
    ELSE [x \in DOMAIN store \cup {k} |-> IF x = k THEN entry ELSE store[x]]

\* self.data[elem[key]] = entry
Put(store, k, entry) ==
    [x \in DOMAIN store \cup {k} |-> IF x = k THEN entry ELSE store[x]]

\* Scraper.load: the elements in list order; a missing key raises KeyError and
\* leaves the entries of the elements before it in the store
RECURSIVE load(_, _, _, _)
load(store, elems, key, tags) ==
    IF elems = <<>> THEN [data |-> store, raised_in |-> "none"]
    ELSE LET elem == Head(elems) IN
         IF ~(tags \subseteq DOMAIN elem) \/ key \notin DOMAIN elem
         THEN [data |-> store, raised_in |-> "load"]
         ELSE load(Put(store, elem[key], Project(elem, tags)), Tail(elems), key, tags)

HasId(s, doc) == IdField(s) \in DOMAIN doc

RECURSIVE ValidPrefix(_, _)
ValidPrefix(s, docs) ==
    IF docs = <<>> \/ ~HasId(s, Head(docs)) THEN <<>>
    ELSE <<Head(docs)>> \o ValidPrefix(s, Tail(docs))

scrape_tail_eager(s, store, docs) ==
    LET pre == ValidPrefix(s, docs)
        tagged == [j \in 1..Len(pre) |-> Tag(s, pre[j])]
        r == load(store, tagged, "store_key", Tags(s))
    IN  IF Len(pre) < Len(docs)
        THEN [data |-> r.data, raised_in |-> IF r.raised_in = "none" THEN "tag" ELSE r.raised_in]
        ELSE r

\* scrape after the loops: the tagging loop over all documents, then load
scrape_tail(s, store, docs) ==
    IF \E j \in 1..Len(docs) : ~HasId(s, docs[j])
    THEN [data |-> store, raised_in |-> "tag"]
    ELSE load(store, [j \in 1..Len(docs) |-> Tag(s, docs[j])], "store_key", Tags(s))

PageModeSelected == page_limit # Unset

PageLoopCondShort == page < page_limit

\* for page in range(1, self.page_limit + 1)
PageLoopCond == page <= page_limit

DocLoopCondShort == i < document_limit - 1

\* while i < self.document_limit
DocLoopCond == i < document_limit

Ended == pc \in {"returned", "raised"}

Outcome(d, r) == [data |-> d, raised_in |-> r]

(***************************************************************************)
(* Construction: Scraper.__init__ and the subclass __init__.               *)
(***************************************************************************)
Init ==
    /\ scraper \in {"BuzzFeed", "ClickHole"}
    /\ web \in Sites(scraper)
    /\ page_limit \in {Unset} \cup 0..MaxPageLimit
    /\ document_limit \in 1..MaxDocLimit
    /\ data = EmptyMap
    /\ pc = "idle"
    /\ documents = <<>>
    /\ i = 0
    /\ page = 0
    /\ raised_in = "none"
    /\ requested = <<>>
    /\ data0 = EmptyMap
    /\ hist = <<>>

ScrapeStartKeepPage ==
    /\ pc \in {"idle", "returned", "raised"}
    /\ Len(hist) < MaxRuns
    /\ documents' = <<>>
    /\ i' = 0
    /\ page' = IF page = 0 THEN 1 ELSE page
    /\ pc' = IF PageModeSelected THEN "page_loop" ELSE "doc_loop"
    /\ raised_in' = "none"
    /\ requested' = <<>>
    /\ data0' = data
    /\ UNCHANGED <<scraper, page_limit, document_limit, data, web, hist>>

\* scrape is called: documents = [], the mode is chosen, the counters are set
ScrapeStart ==
    /\ pc \in {"idle", "returned", "raised"}
    /\ Len(hist) < MaxRuns
    /\ documents' = <<>>
    /\ i' = 0
    /\ page' = 1
    /\ pc' = IF PageModeSelected THEN "page_loop" ELSE "doc_loop"
    /\ raised_in' = "none"
    /\ requested' = <<>>
    /\ data0' = data
    /\ UNCHANGED <<scraper, page_limit, document_limit, data, web, hist>>

\* one iteration of the page-count loop
PageLoopStep ==
    /\ pc = "page_loop"
    /\ PageLoopCond
    /\ documents' = documents \o find_data(page)
    /\ requested' = Append(requested, page)
    /\ page' = page + 1
    /\ UNCHANGED <<scraper, page_limit, document_limit, data, web, pc, i,
                   raised_in, data0, hist>>

PageLoopExit ==
    /\ pc = "page_loop"
    /\ ~PageLoopCond
    /\ pc' = "finish"
    /\ UNCHANGED <<scraper, page_limit, document_limit, data, web, documents,
                   i, page, raised_in, requested, data0, hist>>

\* one iteration of the document-count loop: the inner for loop appends the
\* whole page and counts its records, then page += 1
DocLoopStep ==
    /\ pc = "doc_loop"
    /\ DocLoopCond
    /\ page <= MaxPage
    /\ documents' = documents \o find_data(page)
    /\ i' = i + Len(find_data(page))
    /\ requested' = Append(requested, page)
    /\ page' = page + 1
    /\ UNCHANGED <<scraper, page_limit, document_limit, data, web, pc,
                   raised_in, data0, hist>>

DocLoopExit ==
    /\ pc = "doc_loop"
    /\ ~DocLoopCond
    /\ pc' = "finish"
    /\ UNCHANGED <<scraper, page_limit, document_limit, data, web, documents,
                   i, page, raised_in, requested, data0, hist>>

\* find_data raises (soup has no exception handling; a malformed page makes
\* the extraction raise): the exception leaves scrape
ExtractRaise ==
    /\ \/ pc = "page_loop" /\ PageLoopCond
       \/ pc = "doc_loop" /\ DocLoopCond /\ page <= MaxPage
    /\ requested' = Append(requested, page)
    /\ pc' = "raised"
    /\ raised_in' = "find_data"
    /\ hist' = Append(hist, Outcome(data, "find_data"))
    /\ UNCHANGED <<scraper, page_limit, document_limit, data, web, documents,
                   i, page, data0>>

\* the tagging loop and load; documents keeps the list as the loops built it
Finish ==
    /\ pc = "finish"
    /\ LET r == scrape_tail(scraper, data, documents) IN
        /\ data' = r.data
        /\ raised_in' = r.raised_in
        /\ pc' = IF r.raised_in = "none" THEN "returned" ELSE "raised"
        /\ hist' = Append(hist, Outcome(r.data, r.raised_in))
    /\ UNCHANGED <<scraper, page_limit, document_limit, web, documents, i,
                   page, requested, data0>>

Next ==
    \/ ScrapeStart
    \/ PageLoopStep
    \/ PageLoopExit
    \/ DocLoopStep
    \/ DocLoopExit
    \/ ExtractRaise
    \/ Finish

Spec == Init /\ [][Next]_vars

(***************************************************************************)
(* Helpers of the properties.                                              *)
(***************************************************************************)
RECURSIVE PagesUpTo(_)
PagesUpTo(n) == IF n <= 0 THEN <<>> ELSE PagesUpTo(n - 1) \o find_data(n)

Consecutive(s) == \A j \in 1..Len(s) : s[j] = j

LoopsDone == pc = "finish" \/ (Ended /\ raised_in # "find_data")

DocMode == page_limit = Unset /\ pc # "idle"

PageMode == page_limit # Unset /\ pc # "idle"

\* the records the site holds on its pages
SourceRecords == UNION {{web[p][j] : j \in 1..Len(web[p])} : p \in 1..Len(web)}

\* the key the specification gives a record: publisher, "-", native id
KeyOf(doc) ==
    (IF scraper = "ClickHole" THEN "ClickHole" ELSE "BuzzFeed") \o "-"
        \o doc[IF scraper = "ClickHole" THEN "article_id" ELSE "buzz-id"]

\* the entry the specification stores for a record
EntryOf(doc) ==
    IF scraper = "ClickHole"
    THEN [name |-> doc.name, publisher |-> "ClickHole",
          store_key |-> KeyOf(doc), article_id |-> doc.article_id]
    ELSE [name |-> doc.name, publisher |-> "BuzzFeed",
          store_key |-> KeyOf(doc), buzz_id |-> doc.buzz_id]

Storable(doc) ==
    /\ HasId(scraper, doc)
    /\ scraper = "BuzzFeed" => "buzz_id" \in DOMAIN doc

\* the distinct native ids of the storable records the site holds
SourceIds == {d[IdField(scraper)] : d \in {x \in SourceRecords : Storable(x)}}

\* the elements load went through: all of them, or those before the one it
\* raised on
Processed ==
    IF raised_in = "none" THEN documents
    ELSE SubSeq(documents, 1,
                (CHOOSE j \in 1..Len(documents) :
                    /\ ~Storable(documents[j])
                    /\ \A m \in 1..(j - 1) : Storable(documents[m])) - 1)

(***************************************************************************)
(* C1 (as claimed): in document-count mode no page is requested after the  *)
(* first empty page, so the call ends once the site is exhausted.          *)
(***************************************************************************)
C1_NoRequestAfterEmptyPage ==
    DocMode =>
        \A j \in 1..Len(requested) :
            \A m \in 1..(j - 1) : find_data(requested[m]) # <<>>

C4_SiblingsInserted ==
    (Ended /\ raised_in = "tag") =>
        \A j \in 1..Len(documents) :
            Storable(documents[j]) => KeyOf(documents[j]) \in DOMAIN data

(***************************************************************************)
(* C5: last write wins without merge: for every element load went through, *)
(* the store holds under the element's key exactly the projection of the   *)
(* last such element carrying that key.                                    *)
(***************************************************************************)
C5_LastWriteWins ==
    (Ended /\ raised_in \in {"none", "load"}) =>
        \A j \in 1..Len(Processed) :
            LET k == KeyOf(Processed[j])
                last == CHOOSE m \in j..Len(Processed) :
                            /\ KeyOf(Processed[m]) = k
                            /\ \A n \in (m + 1)..Len(Processed) : KeyOf(Processed[n]) # k
            IN  /\ k \in DOMAIN data
                /\ data[k] = EntryOf(Processed[last])

C5_Witness ==
    /\ pc = "returned"
    /\ scraper = "ClickHole"
    /\ Len(documents) >= 2
    /\ documents[1].article_id = documents[2].article_id
    /\ documents[1].name # documents[2].name
    /\ data[KeyOf(documents[1])].name = documents[2].name

(***************************************************************************)
(* C6: two consecutive calls that both got every page from the site leave  *)
(* the store after the second call equal to the store after the first.     *)
(***************************************************************************)
C6_Idempotent ==
    \A j \in 2..Len(hist) :
        (hist[j - 1].raised_in # "find_data" /\ hist[j].raised_in # "find_data")
            => hist[j].data = hist[j - 1].data

C6_Witness ==
    /\ Len(hist) = 2
    /\ hist[1].raised_in = "none"
    /\ hist[2].raised_in = "none"
    /\ Cardinality(DOMAIN data) = 2
    /\ Len(documents) >= 2

(***************************************************************************)
(* C7: every stored entry has exactly the fields of the scraper's tag      *)
(* list: BuzzFeed's buzz_id, name, store_key, publisher and ClickHole's    *)
(* name, publisher, store_key, article_id.                                 *)
(***************************************************************************)
C7_ExactTags ==
    \A k \in DOMAIN data :
        DOMAIN data[k] =
            IF scraper = "ClickHole"
            THEN {"name", "publisher", "store_key", "article_id"}
            ELSE {"buzz_id", "name", "store_key", "publisher"}

C7_Witness ==
    /\ scraper = "BuzzFeed"
    /\ pc = "returned"
    /\ Len(documents) >= 1
    /\ "buzz-id" \in DOMAIN documents[1]
    /\ Cardinality(DOMAIN data) = 1

(***************************************************************************)
(* C8: a record with a native id is stored under publisher, "-", native    *)
(* id; the entry's store_key field is the key it is stored under; records  *)
(* with distinct native ids get distinct keys.                             *)
(***************************************************************************)
C8_StoreKey ==
    /\ \A k \in DOMAIN data : data[k].store_key = k
    /\ pc = "returned" =>
        /\ \A j \in 1..Len(documents) :
              /\ StoreKey(scraper, documents[j]) = KeyOf(documents[j])
              /\ KeyOf(documents[j]) \in DOMAIN data
        /\ \A j, m \in 1..Len(documents) :
              documents[j][IdField(scraper)] # documents[m][IdField(scraper)]
                  => Tag(scraper, documents[j]).store_key # Tag(scraper, documents[m]).store_key
        /\ Cardinality(DOMAIN data) >=
              Cardinality({documents[j][IdField(scraper)] : j \in 1..Len(documents)})

C8_Witness ==
    /\ pc = "returned"
    /\ Len(documents) >= 2
    /\ documents[1][IdField(scraper)] # documents[2][IdField(scraper)]
    /\ Cardinality(DOMAIN data) = 2

(***************************************************************************)
(* C9 (as claimed): a fetch failure on one page does not end the call: a   *)
(* call never raises after a single failed page.                           *)
(***************************************************************************)
C9_FetchFailureSkipsPage ==
    ~(pc = "raised" /\ raised_in = "find_data" /\ Len(requested) >= 1)

(***************************************************************************)
(* C10: the store is written only after every page is extracted and every  *)
(* record tagged: while the loops run, and after a call that raised in     *)
(* find_data or in the tagging loop, the store is what it was when the     *)
(* call started.                                                           *)
(***************************************************************************)
C10_StoreUntouchedOnRaise ==
    /\ pc \in {"page_loop", "doc_loop", "finish"} => data = data0
    /\ (pc = "raised" /\ raised_in \in {"find_data", "tag"}) => data = data0

C10_Witness ==
    /\ pc = "raised"
    /\ raised_in = "tag"
    /\ Len(documents) >= 2
    /\ Storable(documents[1])
    /\ ~HasId(scraper, documents[2])
    /\ data = EmptyMap

====
